---- MODULE Spec2Model ----
(***************************************************************************)
(* BookBlog (src/bookblog/app.py): flat-file JSON storage, the salted-hash *)
(* account store, the book/comment catalog and the admin panel.            *)
(*                                                                         *)
(* The module holds several specifications over one set of variables:      *)
(*   SpecFile        save_json / load_json at system-call granularity,     *)
(*                   writers may overlap                                   *)
(*   SpecFileSerial  the same steps, one save_json at a time, with crashes *)
(*   SpecSerial      catalog operations, one whole call at a time          *)
(*   SpecConc        catalog operations split at every load and save,      *)
(*                   sessions interleave, the process may crash            *)
(*   SpecAuth        the account functions called with arbitrary inputs    *)
(*   SpecPanel       the admin panel driven by logged-in sessions          *)
(*   SpecPage        page runs of the sessions, one after the other: the   *)
(*                   widgets main and book_card offer to each session      *)
(*   SpecBooks       add_book and search_books with the text fields        *)
(*   SpecStore       ensure_storage and load/change/save calls from a      *)
(*                   fresh data directory, at system-call granularity      *)
(*   SpecMerge       merge(base, incoming), as spec.md 4.2 describes it    *)
(***************************************************************************)
EXTENDS Integers, Sequences, FiniteSets, TLC

VARIABLES
    \* ---- file level (save_json / load_json on one collection path) ----
    fs,         \* directory: "path" and "tmp" |-> file content or NoFile
    wpc,        \* writer -> "idle" | "writing" | "done" | "failed" | "crashed"
    wdata,      \* writer -> document passed to save_json
    woff,       \* writer -> offset of its open file description
    wfd,        \* writer -> what its file description's inode is linked as
    wprev,      \* writer -> content of path when its save_json began (history)
    cur,        \* the writer whose save_json began last (history)
    passed,     \* documents passed in full to save_json, and the initial one (history)
    lastLoad,   \* result of the last load_json, or NoLoad
    nsaves      \* number of save_json calls begun

VARIABLES
    \* ---- catalog (books.json and comments.json as parsed documents) ----
    books,        \* the books document: sequence of book records
    comments,     \* the comments document: sequence of comment records
    nextId,       \* the next identifier uuid.uuid4() hands out
    now,          \* datetime.utcnow(): advances between any two records
    spc,          \* session -> where its running call stands, or "idle"
    slocal,       \* session -> the document its call loaded
    sarg,         \* session -> the identifier argument of its call
    snew,         \* session -> the record its call built
    liveBooks,    \* ids of books added and not yet deleted (history)
    liveComments, \* <<id, book_id>> of comments added and not yet removed (history)
    lastOp,       \* the call that completed last: [op, arg] (history)
    shown,        \* comments the explore view displays
    viewErr,      \* whether the explore view raised
    viewing       \* an explore view is on display

fvars == <<fs, wpc, wdata, woff, wfd, wprev, cur, passed, lastLoad, nsaves>>
cvars == <<books, comments, nextId, now, spc, slocal, sarg, snew, liveBooks,
           liveComments, lastOp, shown, viewErr, viewing>>

VARIABLES
    \* ---- accounts (users.json as a parsed document, and the sessions) ----
    users,        \* the users document: sequence of user records
    nextUid,      \* the next identifier uuid.uuid4() hands out to a user
    nextSalt,     \* the next salt uuid.uuid4() hands out
    auth_user,    \* session -> st.session_state.auth_user, NoUser for None
    lastPw,       \* <<account name, password>> of the latest call per name (history)
    ucall         \* the account call made last: [op, outcome, username, arg, by] (history)

uvars == <<users, nextUid, nextSalt, auth_user, lastPw, ucall>>

VARIABLES
    \* ---- the identity reconciler ----
    base,         \* the collection merged into
    incoming,     \* the collection merged in
    keep,         \* which position the index keeps for an identifier held twice
    merged,       \* merge(base, incoming), once computed
    remerged,     \* merge(merged, incoming), once computed
    mstage        \* "start" | "merged" | "remerged"

mvars == <<base, incoming, keep, merged, remerged, mstage>>

vars == <<fvars, cvars, uvars, mvars>>

(***************************************************************************)
(* Bounds                                                                  *)
(***************************************************************************)
MaxSaves == 2       \* save_json calls in one behaviour of the file-level model
MaxIds == 3         \* identifiers uuid.uuid4() hands out to books and comments
MaxConcIds == 3     \* the same, when sessions interleave (SpecConc)
MaxUsers == 2       \* identifiers uuid.uuid4() hands out to users
MaxSalts == 3       \* salts uuid.uuid4() hands out
MaxPageIds == 2     \* the same, in the page-level model (SpecPage)
MaxBooks == 2       \* books added in the model of the text fields (SpecBooks)
MaxMergeLen == 2    \* records in a collection handed to merge

(***************************************************************************)
(* File level                                                              *)
(***************************************************************************)
Writers == {"w1", "w2"}
Records == {"r1", "r2"}
\* "No such file" and "no result yet", as texts no document encodes to.
NoFile == <<"NoFile">>
NoLoad == <<"NoLoad">>

\* The documents callers hand to save_json.
SaveDocs == {<<>>, <<"r1">>, <<"r2", "r1">>}

\* The documents a collection file holds after ensure_storage: [] for
\* books.json and comments.json, one record for users.json.
InitDocs == {<<>>, <<"r1">>}

\* json.dumps(data): the text of a document, as the units one write system
\* call transfers: the opening bracket, each record, the closing bracket.
Encode(doc) == <<"[">> \o doc \o <<"]">>

\* json.loads(text): the document, or ParseError when text is no document.
ParseError == <<"ParseError">>
Decode(text) ==
    IF /\ Len(text) >= 2
       /\ text[1] = "["
       /\ text[Len(text)] = "]"
       /\ \A i \in 2..(Len(text) - 1) : text[i] \in Records
    THEN SubSeq(text, 2, Len(text) - 1)
    ELSE ParseError

\* load_json(path): the parsed document, [] on any read or parse failure.
load_json(dir) ==
    IF dir["path"] = NoFile THEN <<>>
    ELSE IF Decode(dir["path"]) = ParseError THEN <<>>
    ELSE Decode(dir["path"])

\* write(2) of one unit at offset off (0-based) of a file: bytes past the
\* end of the file leave a hole that reads as NUL.
WriteAt(text, off, unit) ==
    [i \in 1..(IF off + 1 > Len(text) THEN off + 1 ELSE Len(text)) |->
        IF i = off + 1 THEN unit
        ELSE IF i <= Len(text) THEN text[i]
        ELSE "nul"]

\* tmp = path.with_suffix(".tmp"): the directory entry save_json writes to.
\* Every save_json of one path uses the same entry.
SaveTargetInPlace == "path"
SaveTarget == "tmp"

\* save_json, step 1: tmp.write_text opens tmp with O_CREAT | O_TRUNC. An
\* existing tmp is truncated and shared with whoever has it open.
SaveOpen(w, data) ==
    /\ wpc[w] \in {"idle", "done", "failed", "crashed"}
    /\ nsaves < MaxSaves
    /\ fs' = [fs EXCEPT ![SaveTarget] = <<>>]
    /\ wpc' = [wpc EXCEPT ![w] = "writing"]
    /\ wdata' = [wdata EXCEPT ![w] = data]
    /\ woff' = [woff EXCEPT ![w] = 0]
    /\ wfd' = [wfd EXCEPT ![w] = SaveTarget]
    /\ wprev' = [wprev EXCEPT ![w] = fs["path"]]
    /\ cur' = w
    /\ passed' = passed \cup {data}
    /\ nsaves' = nsaves + 1
    /\ UNCHANGED lastLoad

\* save_json, step 2 (repeated): one write system call of tmp.write_text,
\* at the writer's own offset, into the inode it opened.
SaveWrite(w) ==
    /\ wpc[w] = "writing"
    /\ woff[w] < Len(Encode(wdata[w]))
    /\ fs' = IF wfd[w] = "unlinked" THEN fs
             ELSE [fs EXCEPT ![wfd[w]] =
                      WriteAt(@, woff[w], Encode(wdata[w])[woff[w] + 1])]
    /\ woff' = [woff EXCEPT ![w] = woff[w] + 1]
    /\ UNCHANGED <<wpc, wdata, wfd, wprev, cur, passed, lastLoad, nsaves>>

\* save_json, step 3: tmp.replace(path), rename(2). The inode linked as tmp
\* becomes path; the old path inode is unlinked; open file descriptions
\* follow their inodes.
SaveReplace(w) ==
    /\ wpc[w] = "writing"
    /\ woff[w] = Len(Encode(wdata[w]))
    /\ fs[SaveTarget] # NoFile
    /\ fs' = IF SaveTarget = "path" THEN fs
             ELSE [fs EXCEPT !["path"] = fs[SaveTarget], ![SaveTarget] = NoFile]
    /\ wfd' = IF SaveTarget = "path" THEN [wfd EXCEPT ![w] = "none"]
              ELSE [x \in Writers |->
                       IF x = w THEN "none"
                       ELSE IF wfd[x] = "path" THEN "unlinked"
                       ELSE IF wfd[x] = SaveTarget THEN "path"
                       ELSE wfd[x]]
    /\ wpc' = [wpc EXCEPT ![w] = "done"]
    /\ UNCHANGED <<wdata, woff, wprev, cur, passed, lastLoad, nsaves>>

\* save_json, step 3 when another save_json has already renamed tmp away:
\* tmp.replace raises FileNotFoundError.
SaveReplaceFail(w) ==
    /\ wpc[w] = "writing"
    /\ woff[w] = Len(Encode(wdata[w]))
    /\ fs[SaveTarget] = NoFile
    /\ wpc' = [wpc EXCEPT ![w] = "failed"]
    /\ wfd' = [wfd EXCEPT ![w] = "none"]
    /\ UNCHANGED <<fs, wdata, woff, wprev, cur, passed, lastLoad, nsaves>>

\* The process dies inside save_json, before the rename.
SaveCrash(w) ==
    /\ wpc[w] = "writing"
    /\ wpc' = [wpc EXCEPT ![w] = "crashed"]
    /\ wfd' = [wfd EXCEPT ![w] = "none"]
    /\ UNCHANGED <<fs, wdata, woff, wprev, cur, passed, lastLoad, nsaves>>

\* load_json(path) by any reader.
Load ==
    /\ lastLoad' = load_json(fs)
    /\ UNCHANGED <<fs, wpc, wdata, woff, wfd, wprev, cur, passed, nsaves>>

\* One save_json at a time: the caller serializes the calls.
NoneWriting == \A w \in Writers : wpc[w] # "writing"

FileInit ==
    /\ \E d \in InitDocs :
          /\ fs = [n \in {"path", "tmp"} |-> IF n = "path" THEN Encode(d) ELSE NoFile]
          /\ passed = {d}
    /\ wpc = [w \in Writers |-> "idle"]
    /\ wdata = [w \in Writers |-> <<>>]
    /\ woff = [w \in Writers |-> 0]
    /\ wfd = [w \in Writers |-> "none"]
    /\ wprev = [w \in Writers |-> <<>>]
    /\ cur = "w1"
    /\ lastLoad = NoLoad
    /\ nsaves = 0

\* The file-level variables at rest, for the specifications above this level.
FileIdle ==
    /\ fs = [n \in {"path", "tmp"} |-> IF n = "path" THEN Encode(<<>>) ELSE NoFile]
    /\ passed = {<<>>}
    /\ wpc = [w \in Writers |-> "idle"]
    /\ wdata = [w \in Writers |-> <<>>]
    /\ woff = [w \in Writers |-> 0]
    /\ wfd = [w \in Writers |-> "none"]
    /\ wprev = [w \in Writers |-> <<>>]
    /\ cur = "w1"
    /\ lastLoad = NoLoad
    /\ nsaves = 0

FileNext ==
    \/ \E w \in Writers, d \in SaveDocs : SaveOpen(w, d) /\ UNCHANGED <<cvars, uvars, mvars>>
    \/ \E w \in Writers : SaveWrite(w) /\ UNCHANGED <<cvars, uvars, mvars>>
    \/ \E w \in Writers : SaveReplace(w) /\ UNCHANGED <<cvars, uvars, mvars>>
    \/ \E w \in Writers : SaveReplaceFail(w) /\ UNCHANGED <<cvars, uvars, mvars>>
    \/ \E w \in Writers : SaveCrash(w) /\ UNCHANGED <<cvars, uvars, mvars>>
    \/ Load /\ UNCHANGED <<cvars, uvars, mvars>>

FileSerialNext ==
    \/ \E w \in Writers, d \in SaveDocs : NoneWriting /\ SaveOpen(w, d) /\ UNCHANGED <<cvars, uvars, mvars>>
    \/ \E w \in Writers : SaveWrite(w) /\ UNCHANGED <<cvars, uvars, mvars>>
    \/ \E w \in Writers : SaveReplace(w) /\ UNCHANGED <<cvars, uvars, mvars>>
    \/ \E w \in Writers : SaveCrash(w) /\ UNCHANGED <<cvars, uvars, mvars>>
    \/ Load /\ UNCHANGED <<cvars, uvars, mvars>>

(***************************************************************************)
(* File level, from a fresh data directory: ensure_storage and the calls   *)
(* that load, change and save a document                                   *)
(***************************************************************************)
\* The document ensure_storage writes when the file is absent: the default
\* administrator for users.json.
DefaultDoc == <<"r1">>

Resting(w) == wpc[w] \in {"idle", "done", "failed", "crashed"}

\* ensure_storage: "if not USERS_JSON.exists()", the file being absent.
\* (With the file present ensure_storage does nothing.)
EnsureCheck(w) ==
    /\ Resting(w)
    /\ fs["path"] = NoFile
    /\ wpc' = [wpc EXCEPT ![w] = "ensure_checked"]
    /\ UNCHANGED <<fs, wdata, woff, wfd, wprev, cur, passed, lastLoad, nsaves>>

\* ensure_storage: USERS_JSON.write_text(...) opens the file itself with
\* O_CREAT | O_TRUNC: whatever the file holds by now is truncated.
EnsureOpen(w) ==
    /\ wpc[w] = "ensure_checked"
    /\ fs' = [fs EXCEPT !["path"] = <<>>]
    /\ wpc' = [wpc EXCEPT ![w] = "ensure_writing"]
    /\ wdata' = [wdata EXCEPT ![w] = DefaultDoc]
    /\ woff' = [woff EXCEPT ![w] = 0]
    /\ wfd' = [wfd EXCEPT ![w] = "path"]
    /\ wprev' = [wprev EXCEPT ![w] = fs["path"]]
    /\ UNCHANGED <<cur, passed, lastLoad, nsaves>>

\* ensure_storage: one write system call of write_text, into the file.
EnsureWrite(w) ==
    /\ wpc[w] = "ensure_writing"
    /\ woff[w] < Len(Encode(wdata[w]))
    /\ fs' = IF wfd[w] = "unlinked" THEN fs
             ELSE [fs EXCEPT ![wfd[w]] =
                      WriteAt(@, woff[w], Encode(wdata[w])[woff[w] + 1])]
    /\ woff' = [woff EXCEPT ![w] = woff[w] + 1]
    /\ UNCHANGED <<wpc, wdata, wfd, wprev, cur, passed, lastLoad, nsaves>>

\* ensure_storage: write_text returns.
EnsureClose(w) ==
    /\ wpc[w] = "ensure_writing"
    /\ woff[w] = Len(Encode(wdata[w]))
    /\ wpc' = [wpc EXCEPT ![w] = "idle"]
    /\ wfd' = [wfd EXCEPT ![w] = "none"]
    /\ UNCHANGED <<fs, wdata, woff, wprev, cur, passed, lastLoad, nsaves>>

\* The process dies inside ensure_storage's write_text.
EnsureCrash(w) ==
    /\ wpc[w] = "ensure_writing"
    /\ wpc' = [wpc EXCEPT ![w] = "crashed"]
    /\ wfd' = [wfd EXCEPT ![w] = "none"]
    /\ UNCHANGED <<fs, wdata, woff, wprev, cur, passed, lastLoad, nsaves>>

\* add_user, add_book, add_comment: load_json, append the new record, and
\* enter save_json with the result. main ran ensure_storage before, so the
\* file exists.
MutateOpen(w, r) ==
    /\ fs["path"] # NoFile
    /\ SaveOpen(w, Append(load_json(fs), r))

StoreInit ==
    /\ fs = [n \in {"path", "tmp"} |-> NoFile]
    /\ passed = {}
    /\ wpc = [w \in Writers |-> "idle"]
    /\ wdata = [w \in Writers |-> <<>>]
    /\ woff = [w \in Writers |-> 0]
    /\ wfd = [w \in Writers |-> "none"]
    /\ wprev = [w \in Writers |-> <<>>]
    /\ cur = "w1"
    /\ lastLoad = NoLoad
    /\ nsaves = 0

\* Page runs of two sessions from a fresh data directory, interleaved at
\* every system call.
StoreNext ==
    \/ \E w \in Writers : EnsureCheck(w) /\ UNCHANGED <<cvars, uvars, mvars>>
    \/ \E w \in Writers : EnsureOpen(w) /\ UNCHANGED <<cvars, uvars, mvars>>
    \/ \E w \in Writers : EnsureWrite(w) /\ UNCHANGED <<cvars, uvars, mvars>>
    \/ \E w \in Writers : EnsureClose(w) /\ UNCHANGED <<cvars, uvars, mvars>>
    \/ \E w \in Writers : EnsureCrash(w) /\ UNCHANGED <<cvars, uvars, mvars>>
    \/ \E w \in Writers, r \in Records : MutateOpen(w, r) /\ UNCHANGED <<cvars, uvars, mvars>>
    \/ \E w \in Writers : SaveWrite(w) /\ UNCHANGED <<cvars, uvars, mvars>>
    \/ \E w \in Writers : SaveReplace(w) /\ UNCHANGED <<cvars, uvars, mvars>>
    \/ \E w \in Writers : SaveReplaceFail(w) /\ UNCHANGED <<cvars, uvars, mvars>>
    \/ \E w \in Writers : SaveCrash(w) /\ UNCHANGED <<cvars, uvars, mvars>>
    \/ Load /\ UNCHANGED <<cvars, uvars, mvars>>

(***************************************************************************)
(* Catalog: books and comments                                             *)
(***************************************************************************)
Sessions == {"s1", "s2"}
Ids == 1..MaxIds

IdsOf(doc) == {doc[i].id : i \in 1..Len(doc)}

\* The book record add_book builds. Cover files are outside the model
\* (cover_path is ""); the free-text fields are one fixed text each.
NewBook(id, t) == [id |-> id, title |-> "title", created_at |-> t]

\* The comment record add_comment builds.
NewComment(id, book_id, t) ==
    [id |-> id, book_id |-> book_id, user |-> "user", text |-> "text", created_at |-> t]

\* delete_book: books = [b for b in books if b["id"] != book_id]
RemoveBook(bks, book_id) == SelectSeq(bks, LAMBDA b : b.id # book_id)

\* delete_book: comments = [c for c in comments if c.get("book_id") != book_id]
KeepAllComments(cms, book_id) == cms
RemoveFirstCommentOf(cms, book_id) ==
    IF \E i \in 1..Len(cms) : cms[i].book_id = book_id
    THEN LET k == CHOOSE i \in 1..Len(cms) :
                      /\ cms[i].book_id = book_id
                      /\ \A j \in 1..(i - 1) : cms[j].book_id # book_id
         IN SubSeq(cms, 1, k - 1) \o SubSeq(cms, k + 1, Len(cms))
    ELSE cms
RemoveCommentsOf(cms, book_id) == SelectSeq(cms, LAMBDA c : c.book_id # book_id)

\* delete_comment: comments = [c for c in comments if c["id"] != comment_id]
RemoveCommentOrThread(cms, comment_id) ==
    SelectSeq(cms, LAMBDA c : c.id # comment_id /\ c.book_id # comment_id)
RemoveComment(cms, comment_id) == SelectSeq(cms, LAMBDA c : c.id # comment_id)

\* get_comments: [c for c in comments if c.get("book_id") == book_id]
get_comments_unfiltered(cms, book_id) == cms
get_comments(cms, book_id) == SelectSeq(cms, LAMBDA c : c.book_id = book_id)

\* sorted(..., key=created_at, reverse=True): stable, so records with equal
\* keys keep their order in the document.
InsertDesc(sorted, x) ==
    LET k == Cardinality({i \in 1..Len(sorted) : sorted[i].created_at >= x.created_at})
    IN SubSeq(sorted, 1, k) \o <<x>> \o SubSeq(sorted, k + 1, Len(sorted))

RECURSIVE SortedByCreatedDesc(_)
SortedByCreatedDesc(bks) ==
    IF bks = <<>> THEN <<>>
    ELSE InsertDesc(SortedByCreatedDesc(SubSeq(bks, 1, Len(bks) - 1)), bks[Len(bks)])

\* search_books(q): the books whose text contains q, newest first. Which
\* books contain q is the set match, any subset of the stored books.
search_books(bks, match) ==
    SortedByCreatedDesc(SelectSeq(bks, LAMBDA b : b.id \in match))

\* The explore tab: book_card(b) for b in results, each listing
\* get_comments(b["id"]).
RECURSIVE CardComments(_, _)
CardComments(results, cms) ==
    IF results = <<>> THEN <<>>
    ELSE get_comments(cms, results[1].id) \o CardComments(Tail(results), cms)

\* book_card reads b["title"], c["user"], c["created_at"], c["text"]: a
\* record without one of them raises KeyError.
CardRaises(results, cms) ==
    \/ \E i \in 1..Len(results) : ~({"id", "title"} \subseteq DOMAIN results[i])
    \/ \E i \in 1..Len(cms) :
          /\ cms[i].book_id \in IdsOf(results)
          /\ ~({"user", "created_at", "text"} \subseteq DOMAIN cms[i])

\* The identifiers handed out so far: what a page can have on display.
Issued == 1..(nextId - 1)

AllIdle == \A s \in Sessions : spc[s] = "idle"
OthersIdle(s) == \A t \in Sessions \ {s} : spc[t] = "idle"

NoRecord == NewBook(0, 0)
Rest(s) ==
    /\ spc' = [spc EXCEPT ![s] = "idle"]
    /\ slocal' = [slocal EXCEPT ![s] = <<>>]
    /\ sarg' = [sarg EXCEPT ![s] = 0]
    /\ snew' = [snew EXCEPT ![s] = NoRecord]

\* add_book, up to the record being built: load_json(BOOKS_JSON), uuid4, utcnow.
AddBookLoad(s) ==
    /\ spc[s] = "idle"
    /\ nextId <= MaxIds
    /\ now' = now + 1
    /\ snew' = [snew EXCEPT ![s] = NewBook(nextId, now')]
    /\ nextId' = nextId + 1
    /\ slocal' = [slocal EXCEPT ![s] = books]
    /\ spc' = [spc EXCEPT ![s] = "add_book"]
    /\ UNCHANGED lastOp
    /\ UNCHANGED <<books, comments, sarg, liveBooks, liveComments, shown,
                   viewErr, viewing>>

\* add_book: books.append(book); save_json(BOOKS_JSON, books)
AppendToStored(loaded, stored, rec) == Append(stored, rec)
AppendToLoaded(loaded, stored, rec) == Append(loaded, rec)

AddBookSave(s) ==
    /\ spc[s] = "add_book"
    /\ books' = AppendToLoaded(slocal[s], books, snew[s])
    /\ liveBooks' = liveBooks \cup {snew[s].id}
    /\ Rest(s)
    /\ lastOp' = [op |-> "add_book", arg |-> snew[s].id]
    /\ UNCHANGED <<comments, nextId, now, liveComments, shown, viewErr,
                   viewing>>

\* delete_book: load_json(BOOKS_JSON)
DeleteBookLoad(s, book_id) ==
    /\ spc[s] = "idle"
    /\ slocal' = [slocal EXCEPT ![s] = books]
    /\ sarg' = [sarg EXCEPT ![s] = book_id]
    /\ spc' = [spc EXCEPT ![s] = "delete_book_loaded"]
    /\ UNCHANGED lastOp
    /\ UNCHANGED <<books, comments, nextId, now, snew, liveBooks,
                   liveComments, shown, viewErr, viewing>>

\* delete_book: the filter and save_json(BOOKS_JSON, books)
DeleteBookSave(s) ==
    /\ spc[s] = "delete_book_loaded"
    /\ books' = RemoveBook(slocal[s], sarg[s])
    /\ liveBooks' = liveBooks \ {sarg[s]}
    /\ spc' = [spc EXCEPT ![s] = "delete_book_saved"]
    /\ UNCHANGED lastOp
    /\ UNCHANGED <<comments, nextId, now, slocal, sarg, snew, liveComments,
                   shown, viewErr, viewing>>

\* delete_book: load_json(COMMENTS_JSON)
DeleteBookLoadComments(s) ==
    /\ spc[s] = "delete_book_saved"
    /\ slocal' = [slocal EXCEPT ![s] = comments]
    /\ spc' = [spc EXCEPT ![s] = "delete_book_comments"]
    /\ UNCHANGED lastOp
    /\ UNCHANGED <<books, comments, nextId, now, sarg, snew, liveBooks,
                   liveComments, shown, viewErr, viewing>>

\* delete_book: the cascade filter and save_json(COMMENTS_JSON, comments)
DeleteBookSaveComments(s) ==
    /\ spc[s] = "delete_book_comments"
    /\ comments' = RemoveCommentsOf(slocal[s], sarg[s])
    /\ liveComments' = {c \in liveComments : c[2] # sarg[s]}
    /\ Rest(s)
    /\ lastOp' = [op |-> "delete_book", arg |-> sarg[s]]
    /\ UNCHANGED <<books, nextId, now, liveBooks, shown, viewErr, viewing>>

\* add_comment, up to the record being built
AddCommentLoad(s, book_id) ==
    /\ spc[s] = "idle"
    /\ nextId <= MaxIds
    /\ now' = now + 1
    /\ snew' = [snew EXCEPT ![s] = NewComment(nextId, book_id, now')]
    /\ nextId' = nextId + 1
    /\ slocal' = [slocal EXCEPT ![s] = comments]
    /\ spc' = [spc EXCEPT ![s] = "add_comment"]
    /\ UNCHANGED lastOp
    /\ UNCHANGED <<books, comments, sarg, liveBooks, liveComments, shown,
                   viewErr, viewing>>

\* add_comment: comments.append(comment); save_json(COMMENTS_JSON, comments)
AddCommentSave(s) ==
    /\ spc[s] = "add_comment"
    /\ comments' = AppendToLoaded(slocal[s], comments, snew[s])
    /\ liveComments' = liveComments \cup {<<snew[s].id, snew[s].book_id>>}
    /\ Rest(s)
    /\ lastOp' = [op |-> "add_comment", arg |-> snew[s].id]
    /\ UNCHANGED <<books, nextId, now, liveBooks, shown, viewErr, viewing>>

\* delete_comment: load_json(COMMENTS_JSON)
DeleteCommentLoad(s, comment_id) ==
    /\ spc[s] = "idle"
    /\ slocal' = [slocal EXCEPT ![s] = comments]
    /\ sarg' = [sarg EXCEPT ![s] = comment_id]
    /\ spc' = [spc EXCEPT ![s] = "delete_comment"]
    /\ UNCHANGED lastOp
    /\ UNCHANGED <<books, comments, nextId, now, snew, liveBooks,
                   liveComments, shown, viewErr, viewing>>

\* delete_comment: the filter and save_json(COMMENTS_JSON, comments)
DeleteCommentSave(s) ==
    /\ spc[s] = "delete_comment"
    /\ comments' = RemoveComment(slocal[s], sarg[s])
    /\ liveComments' = {c \in liveComments : c[1] # sarg[s]}
    /\ Rest(s)
    /\ lastOp' = [op |-> "delete_comment", arg |-> sarg[s]]
    /\ UNCHANGED <<books, nextId, now, liveBooks, shown, viewErr, viewing>>

\* The explore tab of one page run: search_books(q), then book_card for
\* every result.
ExploreView(match) ==
    /\ ~viewing
    /\ viewing' = TRUE
    /\ shown' = CardComments(search_books(books, match), comments)
    /\ viewErr' = CardRaises(search_books(books, match), comments)
    /\ UNCHANGED lastOp
    /\ UNCHANGED <<books, comments, nextId, now, spc, slocal, sarg, snew,
                   liveBooks, liveComments>>

\* The page run ends; what it displayed is gone with the next run.
ExploreEnd ==
    /\ viewing
    /\ viewing' = FALSE
    /\ shown' = <<>>
    /\ viewErr' = FALSE
    /\ UNCHANGED lastOp
    /\ UNCHANGED <<books, comments, nextId, now, spc, slocal, sarg, snew,
                   liveBooks, liveComments>>

\* The process dies: every running call stops where it is.
Crash ==
    /\ ~AllIdle
    /\ spc' = [s \in Sessions |-> "idle"]
    /\ slocal' = [s \in Sessions |-> <<>>]
    /\ sarg' = [s \in Sessions |-> 0]
    /\ snew' = [s \in Sessions |-> NoRecord]
    /\ lastOp' = [op |-> "crash", arg |-> 0]
    /\ UNCHANGED <<books, comments, nextId, now, liveBooks, liveComments,
                   shown, viewErr, viewing>>

CatInit ==
    /\ books = <<>>
    /\ comments = <<>>
    /\ nextId = 1
    /\ now = 0
    /\ spc = [s \in Sessions |-> "idle"]
    /\ slocal = [s \in Sessions |-> <<>>]
    /\ sarg = [s \in Sessions |-> 0]
    /\ snew = [s \in Sessions |-> NoRecord]
    /\ liveBooks = {}
    /\ liveComments = {}
    /\ lastOp = [op |-> "none", arg |-> 0]
    /\ shown = <<>>
    /\ viewErr = FALSE
    /\ viewing = FALSE

\* Sessions interleave at every load and save; the process may crash.
ConcNext ==
    \/ ~viewing /\ nextId <= MaxConcIds
          /\ \E s \in Sessions : AddBookLoad(s) /\ UNCHANGED <<fvars, uvars, mvars>>
    \/ ~viewing /\ \E s \in Sessions : AddBookSave(s) /\ UNCHANGED <<fvars, uvars, mvars>>
    \/ ~viewing /\ \E s \in Sessions, id \in Issued : DeleteBookLoad(s, id) /\ UNCHANGED <<fvars, uvars, mvars>>
    \/ ~viewing /\ \E s \in Sessions : DeleteBookSave(s) /\ UNCHANGED <<fvars, uvars, mvars>>
    \/ ~viewing /\ \E s \in Sessions : DeleteBookLoadComments(s) /\ UNCHANGED <<fvars, uvars, mvars>>
    \/ ~viewing /\ \E s \in Sessions : DeleteBookSaveComments(s) /\ UNCHANGED <<fvars, uvars, mvars>>
    \/ ~viewing /\ nextId <= MaxConcIds
          /\ \E s \in Sessions, id \in Issued : AddCommentLoad(s, id) /\ UNCHANGED <<fvars, uvars, mvars>>
    \/ ~viewing /\ \E s \in Sessions : AddCommentSave(s) /\ UNCHANGED <<fvars, uvars, mvars>>
    \/ ~viewing /\ \E s \in Sessions, id \in Issued : DeleteCommentLoad(s, id) /\ UNCHANGED <<fvars, uvars, mvars>>
    \/ ~viewing /\ \E s \in Sessions : DeleteCommentSave(s) /\ UNCHANGED <<fvars, uvars, mvars>>
    \/ \E match \in SUBSET Ids : ExploreView(match) /\ UNCHANGED <<fvars, uvars, mvars>>
    \/ ExploreEnd /\ UNCHANGED <<fvars, uvars, mvars>>
    \/ ~viewing /\ Crash /\ UNCHANGED <<fvars, uvars, mvars>>

\* Every load -> mutate -> save span runs alone: a call begins only when no
\* other call is running.
SerialNext ==
    \/ ~viewing /\ \E s \in Sessions : OthersIdle(s) /\ AddBookLoad(s) /\ UNCHANGED <<fvars, uvars, mvars>>
    \/ ~viewing /\ \E s \in Sessions : AddBookSave(s) /\ UNCHANGED <<fvars, uvars, mvars>>
    \/ ~viewing /\ \E s \in Sessions, id \in Ids :
          OthersIdle(s) /\ DeleteBookLoad(s, id) /\ UNCHANGED <<fvars, uvars, mvars>>
    \/ ~viewing /\ \E s \in Sessions : DeleteBookSave(s) /\ UNCHANGED <<fvars, uvars, mvars>>
    \/ ~viewing /\ \E s \in Sessions : DeleteBookLoadComments(s) /\ UNCHANGED <<fvars, uvars, mvars>>
    \/ ~viewing /\ \E s \in Sessions : DeleteBookSaveComments(s) /\ UNCHANGED <<fvars, uvars, mvars>>
    \/ ~viewing /\ \E s \in Sessions, id \in Ids :
          OthersIdle(s) /\ AddCommentLoad(s, id) /\ UNCHANGED <<fvars, uvars, mvars>>
    \/ ~viewing /\ \E s \in Sessions : AddCommentSave(s) /\ UNCHANGED <<fvars, uvars, mvars>>
    \/ ~viewing /\ \E s \in Sessions, id \in Ids :
          OthersIdle(s) /\ DeleteCommentLoad(s, id) /\ UNCHANGED <<fvars, uvars, mvars>>
    \/ ~viewing /\ \E s \in Sessions : DeleteCommentSave(s) /\ UNCHANGED <<fvars, uvars, mvars>>
    \/ \E match \in SUBSET Ids : ExploreView(match) /\ UNCHANGED <<fvars, uvars, mvars>>
    \/ ExploreEnd /\ UNCHANGED <<fvars, uvars, mvars>>

(***************************************************************************)
(* Accounts: users.json, the account functions, the admin panel            *)
(***************************************************************************)
\* Texts are sequences of characters.
AdminName == <<"a", "d", "m", "i", "n">>
AdminPassword == <<"a", "d", "m", "i", "n", "1", "2", "3">>

\* The usernames a caller passes: "admin", "Admin", "admin ", "bob".
UsernameInputs ==
    { AdminName,
      <<"A", "d", "m", "i", "n">>,
      <<"a", "d", "m", "i", "n", " ">>,
      <<"b", "o", "b">> }

\* The passwords a caller passes: "admin123", "x", " ".
PasswordInputs == {AdminPassword, <<"x">>, <<" ">>}

Roles == {"user", "admin"}

\* str.lower()
LowerChar(c) == IF c = "A" THEN "a" ELSE IF c = "B" THEN "b" ELSE c
Lower(str) == [i \in 1..Len(str) |-> LowerChar(str[i])]

\* str.strip(): without the leading and the trailing whitespace.
Strip(str) ==
    IF \A i \in 1..Len(str) : str[i] = " " THEN <<>>
    ELSE LET first == CHOOSE i \in 1..Len(str) :
                          /\ str[i] # " "
                          /\ \A j \in 1..(i - 1) : str[j] = " "
             last == CHOOSE i \in 1..Len(str) :
                          /\ str[i] # " "
                          /\ \A j \in (i + 1)..Len(str) : str[j] = " "
         IN SubSeq(str, first, last)

\* hash_password: sha256(salt + password). The digest stands for its
\* preimage: equal digests exactly for equal salt and password.
hash_password(password, salt) == <<salt, password>>

\* create_user_record: the username is stored stripped; uuid4 gives the id
\* and, in hash_password, the salt.
create_user_record(id, salt, username, password, role) ==
    [id |-> id, username |-> Strip(username), salt |-> salt,
     password_hash |-> hash_password(password, salt), role |-> role]

NoUser == [id |-> 0, username |-> <<>>, role |-> "none"]

\* add_user: any(u["username"].lower() == username.lower() for u in users),
\* with the username as passed.
ExistsExact(usrs, username) ==
    \E i \in 1..Len(usrs) : usrs[i].username = username
Exists(usrs, username) ==
    \E i \in 1..Len(usrs) : Lower(usrs[i].username) = Lower(username)

\* get_user: the first record whose username matches ignoring case, or None.
get_user(usrs, username) ==
    IF Exists(usrs, username)
    THEN usrs[CHOOSE i \in 1..Len(usrs) :
                 /\ Lower(usrs[i].username) = Lower(username)
                 /\ \A j \in 1..(i - 1) : Lower(usrs[j].username) # Lower(username)]
    ELSE NoUser

\* authenticate: the identity of get_user(username) when the digest of the
\* password under the stored salt is the stored digest, else None.
authenticate(usrs, username, password) ==
    LET u == get_user(usrs, username)
    IN IF u = NoUser THEN NoUser
       ELSE IF hash_password(password, u.salt) = u.password_hash
            THEN [id |-> u.id, username |-> u.username, role |-> u.role]
            ELSE NoUser

\* is_admin: st.session_state.get("auth_user", {}).get("role") == "admin"
is_admin_any_role(s) == auth_user[s].role \in {"admin", "user"}
is_admin(s) == auth_user[s].role = "admin"

HasId(usrs, user_id) == \E i \in 1..Len(usrs) : usrs[i].id = user_id

\* The account names, lower case, of the records with this id.
NamesOf(usrs, user_id) ==
    {Lower(usrs[i].username) : i \in {j \in 1..Len(usrs) : usrs[j].id = user_id}}

\* update_user_password: the first record with the id gets a fresh salt and
\* the digest of the new password.
WithPassword(usrs, user_id, salt, new_password) ==
    LET k == CHOOSE i \in 1..Len(usrs) :
                 /\ usrs[i].id = user_id
                 /\ \A j \in 1..(i - 1) : usrs[j].id # user_id
    IN [usrs EXCEPT ![k] = [@ EXCEPT !.salt = salt,
                                     !.password_hash = hash_password(new_password, salt)]]

\* delete_user: users = [u for u in users if u["id"] != user_id]
WithoutUser(usrs, user_id) == SelectSeq(usrs, LAMBDA u : u.id # user_id)

\* The password of the most recent add_user or update_user_password call
\* for an account name (history).
Record(log, name, password) == {e \in log : e[1] # name} \cup {<<name, password>>}

\* add_user(username, password, role), without a collision
AddUserOk(username, password, role, by) ==
    /\ ~Exists(users, username)
    /\ nextUid <= MaxUsers
    /\ nextSalt <= MaxSalts
    /\ users' = Append(users, create_user_record(nextUid, nextSalt, username, password, role))
    /\ nextUid' = nextUid + 1
    /\ nextSalt' = nextSalt + 1
    /\ lastPw' = Record(lastPw, Lower(Strip(username)), password)
    /\ ucall' = [op |-> "add_user", outcome |-> "ok", username |-> username,
                 arg |-> nextUid, by |-> by]

\* add_user(username, password, role), with a collision: raise ValueError
AddUserDuplicate(username, by) ==
    /\ Exists(users, username)
    /\ ucall' = [op |-> "add_user", outcome |-> "error", username |-> username,
                 arg |-> 0, by |-> by]
    /\ UNCHANGED <<users, nextUid, nextSalt, lastPw>>

\* update_user_password(user_id, new_password), the id found
UpdateUserPasswordOk(user_id, new_password, by) ==
    /\ HasId(users, user_id)
    /\ nextSalt <= MaxSalts
    /\ users' = WithPassword(users, user_id, nextSalt, new_password)
    /\ nextSalt' = nextSalt + 1
    /\ lastPw' = Record(lastPw, CHOOSE n \in NamesOf(users, user_id) : TRUE, new_password)
    /\ ucall' = [op |-> "update_user_password", outcome |-> "ok", username |-> <<>>,
                 arg |-> user_id, by |-> by]
    /\ UNCHANGED nextUid

\* update_user_password(user_id, new_password), no such id: raise ValueError
UpdateUserPasswordMissing(user_id, by) ==
    /\ ~HasId(users, user_id)
    /\ ucall' = [op |-> "update_user_password", outcome |-> "error", username |-> <<>>,
                 arg |-> user_id, by |-> by]
    /\ UNCHANGED <<users, nextUid, nextSalt, lastPw>>

\* delete_user(user_id)
DeleteUser(user_id, by) ==
    /\ users' = WithoutUser(users, user_id)
    /\ lastPw' = {e \in lastPw : Exists(users', e[1])}
    /\ ucall' = [op |-> "delete_user", outcome |-> "ok", username |-> <<>>,
                 arg |-> user_id, by |-> by]
    /\ UNCHANGED <<nextUid, nextSalt>>

\* The account functions called directly, with any arguments.
AuthNext ==
    \/ \E u \in UsernameInputs, p \in PasswordInputs, r \in Roles :
          AddUserOk(u, p, r, 0) /\ UNCHANGED <<auth_user, fvars, cvars, mvars>>
    \/ \E u \in UsernameInputs :
          AddUserDuplicate(u, 0) /\ UNCHANGED <<auth_user, fvars, cvars, mvars>>
    \/ \E id \in 1..MaxUsers, p \in PasswordInputs :
          UpdateUserPasswordOk(id, p, 0) /\ UNCHANGED <<auth_user, fvars, cvars, mvars>>
    \/ \E id \in 1..MaxUsers :
          UpdateUserPasswordMissing(id, 0) /\ UNCHANGED <<auth_user, fvars, cvars, mvars>>
    \/ \E id \in 1..MaxUsers :
          DeleteUser(id, 0) /\ UNCHANGED <<auth_user, fvars, cvars, mvars>>

\* sidebar_auth, the login form: shown to a session that is not logged in;
\* a successful authenticate sets auth_user.
Login(s, username, password) ==
    /\ auth_user[s] = NoUser
    /\ authenticate(users, username, password) # NoUser
    /\ auth_user' = [auth_user EXCEPT ![s] = authenticate(users, username, password)]
    /\ UNCHANGED <<users, nextUid, nextSalt, lastPw, ucall>>

\* sidebar_auth, "Cerrar sesion"
Logout(s) ==
    /\ auth_user[s] # NoUser
    /\ auth_user' = [auth_user EXCEPT ![s] = NoUser]
    /\ UNCHANGED <<users, nextUid, nextSalt, lastPw, ucall>>

\* main, the admin tab: the "Eliminar" button of a listed user is disabled
\* for the session's own account and for the account named "admin".
DisableDelSelfOnly(s, u) == auth_user[s].id = u.id
DisableDel(s, u) == auth_user[s].id = u.id \/ u.username = AdminName

\* main, the admin tab, form "new_user"
PanelCreateOk(s, nu, npw, role) ==
    /\ is_admin(s)
    /\ AddUserOk(nu, npw, role, auth_user[s].id)
    /\ UNCHANGED auth_user

PanelCreateDuplicate(s, nu) ==
    /\ is_admin(s)
    /\ AddUserDuplicate(nu, auth_user[s].id)
    /\ UNCHANGED auth_user

\* main, the admin tab, form "reset_<id>" of a listed user: acts when the
\* new password is not blank, with the password stripped.
PanelReset(s, i, newp) ==
    /\ is_admin(s)
    /\ i \in 1..Len(users)
    /\ Strip(newp) # <<>>
    /\ UpdateUserPasswordOk(users[i].id, Strip(newp), auth_user[s].id)
    /\ UNCHANGED auth_user

\* main, the admin tab, button "del_<id>" of a listed user
PanelDelete(s, i) ==
    /\ is_admin(s)
    /\ i \in 1..Len(users)
    /\ ~DisableDel(s, users[i])
    /\ DeleteUser(users[i].id, auth_user[s].id)
    /\ UNCHANGED auth_user

PanelNext ==
    \/ \E s \in Sessions, u \in UsernameInputs, p \in PasswordInputs :
          Login(s, u, p) /\ UNCHANGED <<fvars, cvars, mvars>>
    \/ \E s \in Sessions : Logout(s) /\ UNCHANGED <<fvars, cvars, mvars>>
    \/ \E s \in Sessions, u \in UsernameInputs, p \in PasswordInputs, r \in Roles :
          PanelCreateOk(s, u, p, r) /\ UNCHANGED <<fvars, cvars, mvars>>
    \/ \E s \in Sessions, u \in UsernameInputs :
          PanelCreateDuplicate(s, u) /\ UNCHANGED <<fvars, cvars, mvars>>
    \/ \E s \in Sessions, i \in 1..MaxUsers, p \in PasswordInputs :
          PanelReset(s, i, p) /\ UNCHANGED <<fvars, cvars, mvars>>
    \/ \E s \in Sessions, i \in 1..MaxUsers :
          PanelDelete(s, i) /\ UNCHANGED <<fvars, cvars, mvars>>

(***************************************************************************)
(* Page runs: what main offers to a session                                *)
(***************************************************************************)
\* The account named in the page-level specification besides the default
\* administrator, and its password.
BobName == <<"b", "o", "b">>
PagePasswords == {AdminPassword, <<"x">>}

\* st.session_state.get("auth_user"): the session is logged in.
LoggedIn(s) == auth_user[s] # NoUser

\* main, tab "Agregar libro": the form exists for a logged-in session.
PageAddBook(s) ==
    /\ LoggedIn(s)
    /\ AddBookLoad(s)
    /\ UNCHANGED uvars

\* book_card, the comment form of a displayed book: exists for a logged-in
\* session.
PageAddComment(s, book_id) ==
    /\ LoggedIn(s)
    /\ book_id \in IdsOf(books)
    /\ AddCommentLoad(s, book_id)
    /\ UNCHANGED uvars

\* book_card, "Eliminar comentario" next to a displayed comment: exists
\* when is_admin().
PageDeleteComment(s, comment_id) ==
    /\ is_admin(s)
    /\ \E i \in 1..Len(comments) :
          comments[i].id = comment_id /\ comments[i].book_id \in IdsOf(books)
    /\ DeleteCommentLoad(s, comment_id)
    /\ UNCHANGED uvars

\* book_card, "Acciones de admin", and the admin tab, "Libros": the
\* "Eliminar libro" button of a stored book exists when is_admin().
PageDeleteBook(s, book_id) ==
    /\ is_admin(s)
    /\ book_id \in IdsOf(books)
    /\ DeleteBookLoad(s, book_id)
    /\ UNCHANGED uvars

\* The call a page run has begun goes on to its end.
PageContinue(s) ==
    /\ \/ AddBookSave(s)
       \/ AddCommentSave(s)
       \/ DeleteCommentSave(s)
       \/ DeleteBookSave(s)
       \/ DeleteBookLoadComments(s)
       \/ DeleteBookSaveComments(s)
    /\ UNCHANGED uvars

\* A page run of a session handles one widget event; here the runs of the
\* sessions follow one another.
PageNext ==
    \/ \E s \in Sessions, u \in {AdminName, BobName}, p \in PagePasswords :
          AllIdle /\ Login(s, u, p) /\ UNCHANGED <<fvars, cvars, mvars>>
    \/ \E s \in Sessions : AllIdle /\ Logout(s) /\ UNCHANGED <<fvars, cvars, mvars>>
    \/ \E s \in Sessions, r \in Roles :
          AllIdle /\ PanelCreateOk(s, BobName, <<"x">>, r) /\ UNCHANGED <<fvars, cvars, mvars>>
    \/ \E s \in Sessions :
          AllIdle /\ PanelCreateDuplicate(s, BobName) /\ UNCHANGED <<fvars, cvars, mvars>>
    \/ \E s \in Sessions, i \in 1..MaxUsers :
          AllIdle /\ PanelReset(s, i, <<"x">>) /\ UNCHANGED <<fvars, cvars, mvars>>
    \/ \E s \in Sessions, i \in 1..MaxUsers :
          AllIdle /\ PanelDelete(s, i) /\ UNCHANGED <<fvars, cvars, mvars>>
    \/ AllIdle /\ nextId <= MaxPageIds
          /\ \E s \in Sessions : PageAddBook(s) /\ UNCHANGED <<fvars, mvars>>
    \/ AllIdle /\ nextId <= MaxPageIds
          /\ \E s \in Sessions, id \in Issued : PageAddComment(s, id) /\ UNCHANGED <<fvars, mvars>>
    \/ AllIdle /\ \E s \in Sessions, id \in Issued : PageDeleteComment(s, id) /\ UNCHANGED <<fvars, mvars>>
    \/ AllIdle /\ \E s \in Sessions, id \in Issued : PageDeleteBook(s, id) /\ UNCHANGED <<fvars, mvars>>
    \/ \E s \in Sessions : PageContinue(s) /\ UNCHANGED <<fvars, mvars>>

(***************************************************************************)
(* Books with their text fields: add_book and search_books                 *)
(***************************************************************************)
\* The texts a caller passes: "", " ", "Ab", " a" as titles; "", "ba" as
\* authors; "", "a, b" as tags; "", " ", "B", " a", "b b" as queries.
TitleInputs == {<<>>, <<" ">>, <<"A", "b">>, <<" ", "a">>}
AuthorInputs == {<<>>, <<"b", "a">>}
TagsInputs == {<<>>, <<"a", ",", " ", "b">>}
QueryInputs == {<<>>, <<" ">>, <<"B">>, <<" ", "a">>, <<"b", " ", "b">>}

\* str.split(sep): the pieces between the separators.
RECURSIVE Split(_, _)
Split(str, sep) ==
    IF \A i \in 1..Len(str) : str[i] # sep THEN <<str>>
    ELSE LET k == CHOOSE i \in 1..Len(str) :
                      /\ str[i] = sep
                      /\ \A j \in 1..(i - 1) : str[j] # sep
         IN <<SubSeq(str, 1, k - 1)>> \o Split(SubSeq(str, k + 1, Len(str)), sep)

\* sep.join(parts)
RECURSIVE Join(_, _)
Join(parts, sep) ==
    IF parts = <<>> THEN <<>>
    ELSE IF Len(parts) = 1 THEN parts[1]
    ELSE parts[1] \o sep \o Join(Tail(parts), sep)

\* q in haystack
Contains(haystack, q) ==
    \E i \in 1..(Len(haystack) + 1) :
        /\ i + Len(q) - 1 <= Len(haystack)
        /\ SubSeq(haystack, i, i + Len(q) - 1) = q

\* add_book: the record, with the fields stripped and the tags split at the
\* commas. No year, description or cover is passed.
BookRecord(id, title, author, tags, t) ==
    [id |-> id,
     title |-> Strip(title),
     author |-> Strip(author),
     year |-> <<>>,
     tags |-> IF tags = <<>> THEN <<>>
              ELSE [i \in 1..Len(Split(tags, ",")) |-> Strip(Split(tags, ",")[i])],
     description |-> <<>>,
     created_at |-> t]

\* search_books: " ".join([title, author, year, " ".join(tags), description])
\* in lower case.
Haystack(b) ==
    Lower(Join(<<b.title, b.author, b.year, Join(b.tags, <<" ">>), b.description>>, <<" ">>))

\* search_books: q = q.lower().strip()
NormalQueryUntrimmed(q) == Lower(q)
NormalQuery(q) == Strip(Lower(q))

\* search_books: the loop that collects the books whose haystack contains
\* the normalized query (all of them when it is empty).
RECURSIVE Collect(_, _)
Collect(bks, q) ==
    IF bks = <<>> THEN <<>>
    ELSE IF q = <<>> \/ Contains(Haystack(bks[1]), q)
         THEN <<bks[1]>> \o Collect(Tail(bks), q)
         ELSE Collect(Tail(bks), q)

\* search_books(q)
SearchResult(bks, q) == SortedByCreatedDesc(Collect(bks, NormalQuery(q)))

\* add_book(title, author, year, tags, description, cover_path), the whole
\* call: load, append, save. Nothing in it looks at the title.
AddBook(title, author, tags) ==
    /\ nextId <= MaxBooks
    /\ now' = now + 1
    /\ books' = AppendToLoaded(books, books, BookRecord(nextId, title, author, tags, now'))
    /\ nextId' = nextId + 1
    /\ liveBooks' = liveBooks \cup {nextId}
    /\ lastOp' = [op |-> "add_book", arg |-> nextId]
    /\ shown' = <<>>
    /\ UNCHANGED <<comments, spc, slocal, sarg, snew, liveComments, viewErr, viewing>>

\* main, form "new_book": "El titulo es obligatorio." unless title.strip().
FormNewBook(title, author, tags) ==
    /\ Strip(title) # <<>>
    /\ AddBook(title, author, tags)

\* search_books(q), called on its own: the result is kept in shown.
SearchBooks(q) ==
    /\ shown' = SearchResult(books, q)
    /\ lastOp' = [op |-> "search_books", arg |-> q]
    /\ UNCHANGED <<books, comments, nextId, now, spc, slocal, sarg, snew,
                   liveBooks, liveComments, viewErr, viewing>>

\* add_book called directly and through the form, and search_books.
BooksNext ==
    \/ \E t \in TitleInputs, a \in AuthorInputs, g \in TagsInputs :
          AddBook(t, a, g) /\ UNCHANGED <<fvars, uvars, mvars>>
    \/ \E t \in TitleInputs, a \in AuthorInputs, g \in TagsInputs :
          FormNewBook(t, a, g) /\ UNCHANGED <<fvars, uvars, mvars>>
    \/ \E q \in QueryInputs : SearchBooks(q) /\ UNCHANGED <<fvars, uvars, mvars>>

\* ensure_storage on a fresh data directory: users.json holds the default
\* administrator, admin / admin123.
UserInit ==
    /\ users = <<create_user_record(1, 1, AdminName, AdminPassword, "admin")>>
    /\ nextUid = 2
    /\ nextSalt = 2
    /\ lastPw = {<<AdminName, AdminPassword>>}
    /\ ucall = [op |-> "none", outcome |-> "ok", username |-> <<>>, arg |-> 0, by |-> 0]
    /\ auth_user = [s \in Sessions |-> NoUser]

(***************************************************************************)
(* The identity reconciler: merge(base, incoming)                          *)
(***************************************************************************)
\* The records of a collection: with identifier 1 or 2 and a content, or
\* with a content and no identifier.
MergeRecords ==
    [id : {1, 2}, v : {"a", "b"}] \cup [v : {"a"}]

HasIdent(r) == "id" \in DOMAIN r
IdentsOf(col) == {col[i].id : i \in {j \in 1..Len(col) : HasIdent(col[j])}}

\* The collections of at most MaxMergeLen records.
Collections == UNION {[1..n -> MergeRecords] : n \in 0..MaxMergeLen}

\* A stored collection holds an identifier once.
DistinctIdents(col) ==
    \A i, j \in 1..Len(col) :
        (i # j /\ HasIdent(col[i]) /\ HasIdent(col[j])) => col[i].id # col[j].id

\* The index of base by identifier: the position of the record with the
\* identifier; of the first or of the last one when base holds it twice.
IndexOf(col, id, which) ==
    LET at == {i \in 1..Len(col) : HasIdent(col[i]) /\ col[i].id = id}
    IN IF which = "first" THEN CHOOSE i \in at : \A j \in at : i <= j
       ELSE CHOOSE i \in at : \A j \in at : i >= j

\* One record of incoming: it replaces the record of base with its
\* identifier at that record's position; without an identifier, or with one
\* base does not hold, it is appended.
MergeOneKeepBase(out, col, r, which) ==
    IF HasIdent(r) /\ r.id \in IdentsOf(col) THEN out ELSE Append(out, r)
MergeOne(out, col, r, which) ==
    IF HasIdent(r) /\ r.id \in IdentsOf(col)
    THEN [out EXCEPT ![IndexOf(col, r.id, which)] = r]
    ELSE Append(out, r)

RECURSIVE MergeInto(_, _, _, _)
MergeInto(out, col, inc, which) ==
    IF inc = <<>> THEN out
    ELSE MergeInto(MergeOne(out, col, inc[1], which), col, Tail(inc), which)

\* merge(base, incoming) -> merged
merge(col, inc, which) == MergeInto(col, col, inc, which)

Merge ==
    /\ mstage = "start"
    /\ merged' = merge(base, incoming, keep)
    /\ mstage' = "merged"
    /\ UNCHANGED <<base, incoming, keep, remerged>>

\* The same incoming merged a second time, into the result of the first.
MergeAgain ==
    /\ mstage = "merged"
    /\ remerged' = merge(merged, incoming, keep)
    /\ mstage' = "remerged"
    /\ UNCHANGED <<base, incoming, keep, merged>>

MergeNext ==
    \/ Merge /\ UNCHANGED <<fvars, cvars, uvars>>
    \/ MergeAgain /\ UNCHANGED <<fvars, cvars, uvars>>

\* No merge is under way.
MergeIdle ==
    /\ base = <<>>
    /\ incoming = <<>>
    /\ keep = "last"
    /\ merged = <<>>
    /\ remerged = <<>>
    /\ mstage = "start"

\* Any stored collection as base, any collection as incoming.
MergeInit ==
    /\ base \in {c \in Collections : DistinctIdents(c)}
    /\ incoming \in Collections
    /\ keep \in {"first", "last"}
    /\ merged = <<>>
    /\ remerged = <<>>
    /\ mstage = "start"

InitMerge == FileIdle /\ CatInit /\ UserInit /\ MergeInit

\* A fresh data directory.
InitStore == StoreInit /\ CatInit /\ UserInit /\ MergeIdle

\* The state after ensure_storage, with any initial document in the file the
\* file-level specifications write.
InitFile == FileInit /\ CatInit /\ UserInit /\ MergeIdle

\* The state after ensure_storage on a fresh data directory.
Init == FileIdle /\ CatInit /\ UserInit /\ MergeIdle

SpecFile == InitFile /\ [][FileNext]_vars
SpecFileSerial == InitFile /\ [][FileSerialNext]_vars
SpecSerial == Init /\ [][SerialNext]_vars
SpecConc == Init /\ [][ConcNext]_vars
SpecAuth == Init /\ [][AuthNext]_vars
SpecPanel == Init /\ [][PanelNext]_vars
SpecPage == Init /\ [][PageNext]_vars
SpecBooks == Init /\ [][BooksNext]_vars
SpecMerge == InitMerge /\ [][MergeNext]_vars
SpecStore == InitStore /\ [][StoreNext]_vars

(***************************************************************************)
(* Claims                                                                  *)
(***************************************************************************)

\* C1: every load_json returns a document that was passed in full to some
\* save_json, or the initial document; never a partial or mixed one. The
\* claim covers save_json calls that overlap and share the temporary file.
C1_LoadSeesWholeDocument == lastLoad # NoLoad => lastLoad \in passed

\* C2: a save_json interrupted before its rename leaves path holding exactly
\* the previous version; once the rename has happened path holds exactly data.
C2_CrashLeavesOldOrNew ==
    /\ wpc[cur] \in {"writing", "crashed"} => fs["path"] = wprev[cur]
    /\ wpc[cur] = "done" => fs["path"] = Encode(wdata[cur])

\* C2 witness: a save_json crashed after writing part of a different
\* document, and path still has the previous version.
C2_Witness ==
    /\ wpc[cur] = "crashed"
    /\ woff[cur] > 0
    /\ Encode(wdata[cur]) # wprev[cur]
    /\ fs["tmp"] # NoFile
    /\ fs["path"] = wprev[cur]

\* C3: when every load -> mutate -> save span runs alone, after any sequence
\* of add_book, delete_book, add_comment and delete_comment calls the books
\* document holds exactly the books added and not yet deleted, each once and
\* in insertion order, and the comments document holds exactly the comments
\* added and not yet removed individually or by cascade.
C3_DocumentsMatchCalls ==
    AllIdle =>
        /\ IdsOf(books) = liveBooks
        /\ Len(books) = Cardinality(liveBooks)
        /\ \A i, j \in 1..Len(books) : i < j => books[i].id < books[j].id
        /\ {<<comments[i].id, comments[i].book_id>> : i \in 1..Len(comments)} = liveComments
        /\ Len(comments) = Cardinality(liveComments)

\* C3 witness: calls of several kinds have run (three ids were issued), a
\* delete_book completed last, one book is still stored and no comment is.
C3_Witness ==
    /\ AllIdle
    /\ lastOp.op = "delete_book"
    /\ nextId > 3
    /\ Len(books) = 1
    /\ comments = <<>>

\* C4: no lock is held across load -> mutate -> save. A call that saves
\* after another call has saved the same collection since its own load
\* replaces the document with its own copy: every record stored in between
\* is gone, and the call completes without error.
C4_StaleSaveClobbers ==
    [][\A s \in Sessions :
          /\ (spc[s] = "add_book" /\ lastOp'.op = "add_book"
                 /\ lastOp'.arg = snew[s].id /\ spc'[s] = "idle")
             => \A id \in IdsOf(books) \ IdsOf(slocal[s]) : id \notin IdsOf(books')
          /\ (spc[s] \in {"add_comment", "delete_comment"} /\ spc'[s] = "idle"
                 /\ lastOp'.op \in {"add_comment", "delete_comment"}
                 /\ comments' # comments)
             => \A id \in IdsOf(comments) \ IdsOf(slocal[s]) : id \notin IdsOf(comments')
      ]_vars

\* C4 witness: two add_book calls have both completed, neither book was
\* deleted, and the books document holds only the one saved last.
C4_Witness ==
    /\ AllIdle
    /\ lastOp.op = "add_book"
    /\ lastOp.arg \in IdsOf(books)
    /\ \E id \in liveBooks : id \notin IdsOf(books)

\* C5: once delete_book(id) has completed, get_comments(id) returns an empty
\* sequence and no book with that id is in the books document.
C5_CascadeDelete ==
    lastOp.op = "delete_book" =>
        /\ get_comments(comments, lastOp.arg) = <<>>
        /\ lastOp.arg \notin IdsOf(books)

\* C5 witness: delete_book(1) has just completed after three ids were
\* issued, and neither a book nor a comment is stored.
C5_Witness ==
    /\ lastOp.op = "delete_book"
    /\ lastOp.arg = 1
    /\ nextId = 4
    /\ books = <<>>
    /\ comments = <<>>
    /\ liveBooks = {}

C7_AuthenticateLatestPassword ==
    \A u \in UsernameInputs, p \in PasswordInputs :
        (authenticate(users, u, p) # NoUser) <=> (<<Lower(u), p>> \in lastPw)

\* C8: no two records of the users document have usernames that are equal
\* ignoring case.
C8_UsernamesUnique ==
    \A i, j \in 1..Len(users) :
        i # j => Lower(users[i].username) # Lower(users[j].username)

\* C9: add_user with a username that equals an existing username ignoring
\* case fails with an error and leaves the users document unchanged; with no
\* such collision it appends exactly one record and changes no existing one.
C9_AddUserRejectsOrAppends ==
    [][ucall'.op = "add_user" =>
          IF \E i \in 1..Len(users) :
                 Lower(users[i].username) = Lower(ucall'.username)
          THEN /\ ucall'.outcome = "error"
               /\ users' = users
          ELSE /\ ucall'.outcome = "ok"
               /\ Len(users') = Len(users) + 1
               /\ SubSeq(users', 1, Len(users)) = users
      ]_vars

\* C9 witness: add_user has just been refused for a username that differs
\* from the stored one in letter case only.
C9_Witness ==
    /\ ucall.op = "add_user"
    /\ ucall.outcome = "error"
    /\ \A i \in 1..Len(users) : users[i].username # ucall.username
    /\ \E i \in 1..Len(users) : Lower(users[i].username) = Lower(ucall.username)

\* C10: in every state reachable through the admin panel (create user, reset
\* password, delete user) by any number of logged-in sessions, the users
\* document holds at least one record with role admin, and no session
\* deletes the account it is logged in as.
C10_AdminRemains ==
    /\ \E i \in 1..Len(users) : users[i].role = "admin"
    /\ ucall.op = "delete_user" => ucall.by # ucall.arg

\* C10 witness: a session has just deleted an administrator that another
\* session is still logged in as.
C10_Witness ==
    /\ ucall.op = "delete_user"
    /\ \E s \in Sessions :
          /\ auth_user[s].role = "admin"
          /\ auth_user[s].id = ucall.arg
          /\ ~HasId(users, auth_user[s].id)

\* C11: role gating. A session begins delete_book or delete_comment, and a
\* call of add_user, update_user_password or delete_user is made, only when
\* the session's auth_user has role admin; a session begins add_book or
\* add_comment only when it has an auth_user; so an anonymous session begins
\* no call and changes no document.
C11_RoleGating ==
    [][ /\ \A s \in Sessions :
              /\ (spc[s] = "idle" /\ spc'[s] \in {"delete_book_loaded", "delete_comment"})
                    => auth_user[s].role = "admin"
              /\ (spc[s] = "idle" /\ spc'[s] \in {"add_book", "add_comment"})
                    => auth_user[s] # NoUser
              /\ (auth_user[s] = NoUser /\ auth_user'[s] = NoUser)
                    => spc'[s] = "idle"
        /\ (ucall' # ucall \/ users' # users)
              => \E t \in Sessions :
                    auth_user[t].role = "admin" /\ ucall'.by = auth_user[t].id
      ]_vars

\* C11 witness: a session logged in with role user is inside add_book, after
\* a delete_book and a delete_user, which only an administrator's session
\* can have begun.
C11_Witness ==
    \E s \in Sessions :
        /\ auth_user[s].role = "user"
        /\ spc[s] = "add_book"
        /\ lastOp.op = "delete_book"
        /\ ucall.op = "delete_user"

\* C12: add_book rejects a title that is empty after trimming, so every
\* record of the books document has a non-empty trimmed title.
C12_TitlesNonEmpty ==
    \A i \in 1..Len(books) : Strip(books[i].title) # <<>>

\* The books whose searchable fields, joined and in lower case, contain the
\* text q.
C13_Having(q) == {i \in 1..Len(books) : Contains(Haystack(books[i]), q)}

\* C13, as claimed: search_books("") returns every stored book, newest
\* first; search_books(q) for a non-empty q returns exactly the stored
\* books whose searchable fields contain q ignoring case, newest first; the
\* books document is not modified.
C13_SearchExactSubset ==
    [][lastOp'.op = "search_books" =>
          /\ books' = books
          /\ \A i, j \in 1..Len(shown') :
                i < j => shown'[i].created_at >= shown'[j].created_at
          /\ {shown'[i] : i \in 1..Len(shown')}
                = {books[i] : i \in C13_Having(Lower(lastOp'.arg))}
          /\ Len(shown') = Cardinality(C13_Having(Lower(lastOp'.arg)))
      ]_vars

\* C13, amended: search_books(q) trims q first. With t the trimmed q in
\* lower case, it returns exactly the stored books whose searchable fields,
\* joined by single spaces, contain t ignoring case (every book when t is
\* empty), newest first, and never modifies the books document.
C13_SearchTrimmedQuery ==
    [][lastOp'.op = "search_books" =>
          /\ books' = books
          /\ \A i, j \in 1..Len(shown') :
                i < j => shown'[i].created_at >= shown'[j].created_at
          /\ {shown'[i] : i \in 1..Len(shown')}
                = {books[i] : i \in C13_Having(Strip(Lower(lastOp'.arg)))}
          /\ Len(shown') = Cardinality(C13_Having(Strip(Lower(lastOp'.arg))))
      ]_vars

\* C13 witness: the query " a" was searched with two books stored; the
\* result leaves one of them out and lists a book whose fields contain "a"
\* but not " a".
C13_Witness ==
    /\ lastOp.op = "search_books"
    /\ lastOp.arg = <<" ", "a">>
    /\ Len(books) = 2
    /\ Len(shown) = 1
    /\ \E i \in 1..Len(shown) : ~Contains(Haystack(shown[i]), <<" ", "a">>)

\* C14: merge idempotence. For all collections A and B, also when B holds
\* records without an identifier or two records with one identifier,
\* merge(merge(A, B), B) equals merge(A, B).
C14_MergeIdempotent ==
    mstage = "remerged" => remerged = merged

\* C15: merge correctness. In merge(A, B) a record of A whose identifier
\* occurs in B is replaced, at its position, by a record of B with that
\* identifier; every other record of A is kept at its position; and the
\* length is |A| plus the number of records of B whose identifier is not
\* in A.
C15_MergeCorrect ==
    mstage \in {"merged", "remerged"} =>
        /\ Len(merged) = Len(base) + Cardinality({j \in 1..Len(incoming) :
                              ~HasIdent(incoming[j]) \/ incoming[j].id \notin IdentsOf(base)})
        /\ \A i \in 1..Len(base) :
              IF HasIdent(base[i]) /\ base[i].id \in IdentsOf(incoming)
              THEN \E j \in 1..Len(incoming) :
                      /\ HasIdent(incoming[j])
                      /\ incoming[j].id = base[i].id
                      /\ merged[i] = incoming[j]
              ELSE merged[i] = base[i]

\* C15 witness: a merge has replaced the first record of a base of two by a
\* different record of incoming, kept the second, and appended a record.
C15_Witness ==
    /\ mstage = "merged"
    /\ Len(base) = 2
    /\ HasIdent(base[1])
    /\ merged[1] # base[1]
    /\ merged[2] = base[2]
    /\ Len(merged) = 3

\* C16: every write to a collection document goes through save_json's
\* rename of the temporary file: the content of the file changes only in
\* the step in which a save_json completes its replace.
C16_WritesOnlyByRename ==
    [][fs'["path"] # fs["path"] =>
          \E w \in Writers : wpc[w] = "writing" /\ wpc'[w] = "done"]_vars

\* C17: ensure_storage never changes the content of a document that
\* exists, in any interleaving: when its write_text opens the file, the
\* file is still absent.
C17_EnsureKeepsExisting ==
    [][\A w \in Writers :
          (wpc[w] = "ensure_checked" /\ wpc'[w] = "ensure_writing")
             => fs["path"] = NoFile]_vars

\* C18: no call that read an unparseable document as empty saves over it:
\* a completed save_json never followed a load_json of an existing file
\* whose text did not parse.
C18_NoSaveOverUnreadable ==
    \A w \in Writers :
        wpc[w] = "done" => (wprev[w] = NoFile \/ Decode(wprev[w]) # ParseError)

\* C19: delete_comment(id) removes exactly the comments with that id: the
\* books and users documents are unchanged, every other comment is kept
\* with its content and in its order, and an id that matches no comment
\* leaves the comments as they were.
C19_DeleteCommentFrame ==
    [][\A s \in Sessions :
          (spc[s] = "delete_comment" /\ spc'[s] = "idle"
              /\ lastOp'.op = "delete_comment" /\ lastOp'.arg = sarg[s])
          => LET kept == {i \in 1..Len(comments) : comments[i].id # sarg[s]}
             IN /\ books' = books
                /\ users' = users
                /\ Len(comments') = Cardinality(kept)
                /\ \A i \in kept :
                      comments'[Cardinality({j \in kept : j <= i})] = comments[i]
                /\ (kept = 1..Len(comments)) => comments' = comments
      ]_vars

\* C19 witness: delete_comment(2) has completed last, after the ids 1, 2
\* and 3 were issued; book 1 and its comment 3 are stored as they were.
C19_Witness ==
    /\ lastOp = [op |-> "delete_comment", arg |-> 2]
    /\ IdsOf(books) = {1}
    /\ Len(comments) = 1
    /\ comments[1] = NewComment(3, 1, 3)
    /\ liveComments = {<<3, 1>>}

\* C20: a deleted account loses its access: in every reachable state each
\* session's auth_user is None or the id, username and role of a record of
\* the users document.
C20_SessionsOfStoredUsers ==
    \A s \in Sessions :
        \/ auth_user[s] = NoUser
        \/ \E i \in 1..Len(users) :
              auth_user[s] = [id |-> users[i].id, username |-> users[i].username,
                              role |-> users[i].role]

====
